---------------------------- MODULE Spec2Model ----------------------------
(***************************************************************************)
(* latency-visualizer: the probing goroutines (pingTCP / pingICMP), the    *)
(* display goroutine (displayGraph, with its displayLoop fallback), and    *)
(* main's shutdown sequence (signal, run = false, wg.Wait, saveLog).       *)
(*                                                                         *)
(* Every goroutine is a process with a program counter; one action is one  *)
(* statement or one blocking call of the source.  The statements a          *)
(* goroutine executes between two of its blocking calls are joined into    *)
(* one action only where they touch nothing but its own locals.            *)
(*                                                                         *)
(* The package variable run is read and written without synchronisation.   *)
(* It is one byte, and every loop that reads it calls a function between   *)
(* two reads, so a build loads it from memory on every test: a read yields *)
(* the value of the latest store, which is what the interleaving of        *)
(* actions gives.                                                          *)
(***************************************************************************)
EXTENDS Integers, Sequences, FiniteSets, TLC

\* ------------------------------------------------------------------ bounds
\* Number of configured hosts (cfg.Hosts); host k is the k-th configured.
NumHosts == 2
\* Probe attempts one Prober starts at most (the source's loop is unbounded).
MaxSent == 2
\* Round-trip times a successful probe measures: 1..MaxRTT.
MaxRTT == 2
\* The history bound of displayGraph's trim, 50 in the source, scaled down
\* so that a history grows past it within MaxSent attempts.
HistoryCap == 1

Hosts == 1..NumHosts

\* ------------------------------------------------------------------- state
VARIABLES
  run,        \* var run
  UseICMP,    \* cfg.UseICMP
  stats,      \* the HostStats records: Latency, PacketLoss, Timestamps, RTTs
  mutex,      \* HostStats.mutex of each record: who holds it
  allStats,   \* main's slice allStats, shared with displayGraph and saveLog
  wg,         \* main's sync.WaitGroup: its counter
  ppc,        \* each Prober goroutine's position
  sent,       \* each Prober's local sent
  received,   \* each Prober's local received
  rtt,        \* each Prober's local rtt
  resp,       \* pingICMP's local resp: the packet ReadFrom stored in it
  ip,         \* pingICMP's local ip: what resolveHost returned
  dpc,        \* the display goroutine's position
  di,         \* its loop index over the slice (sort's i, range's i)
  dj,         \* sort's inner index
  dtmp,       \* the element a swap holds between its two stores
  view,       \* the lines displayLoop has drawn in this refresh
  mpc,        \* main's position
  mi,         \* saveLog's range index
  ms,         \* saveLog's range variable s
  data,       \* saveLog's map data
  logFile,    \* latency_log.json: what has been encoded into it
  stopBy,     \* history: who assigned run = false, in order
  probed      \* history: the rtts of each host's successful probes, in order


pvars == <<wg, ppc, sent, received, rtt, resp, ip>>
dvars == <<dpc, di, dj, dtmp, view>>
mvars == <<mpc, mi, ms, data, logFile>>
hvars == <<stopBy, probed>>
vars == <<run, UseICMP, stats, mutex, allStats, pvars, dvars, mvars,
          hvars>>

\* ----------------------------------------------------------------- helpers
RECURSIVE GCD(_, _)
GCD(a, b) == IF b = 0 THEN a ELSE GCD(b, a % b)

\* Mutant: the operands of the subtraction are exchanged.
PacketLossOf_Swapped(s, r) ==
  LET g == GCD(r - s, s) IN [num |-> (r - s) \div g, den |-> s \div g]

\* float64(sent-received) / float64(sent) * 100, kept exactly as the reduced
\* fraction lost/total of the ratio; the percentage is 100 * num / den.
PacketLossOf(s, r) ==
  LET g == GCD(s - r, s) IN [num |-> (s - r) \div g, den |-> s \div g]

\* The zero value of a float64 field.
ZeroLoss == [num |-> 0, den |-> 1]

\* The zero value of HostStats (main: &HostStats{Host: host}).
NewHostStats ==
  [Latency |-> 0, PacketLoss |-> ZeroLoss, Timestamps |-> <<>>, RTTs |-> <<>>]

\* time.Now() at a record of host h.  The wall clock does not run backwards
\* and the timestamps of a record are compared with one another only, so the
\* instant is kept as the ordinal of the record among those of its host
\* (Timestamps is never shortened).
Now(h) == Len(stats[h].Timestamps) + 1

\* data := make(map[string][]time.Duration): no host has an entry.
EmptyData == [h \in Hosts |-> [present |-> FALSE, RTTs |-> <<>>]]

\* s[len(s)-n:]
LastN(s, n) == SubSeq(s, Len(s) - n + 1, Len(s))

\* run = false is assigned: the history of stop requests gains an entry.
NoteStop(who) == stopBy' = Append(stopBy, who) /\ UNCHANGED probed

\* main returned: the process is gone and no goroutine takes a step.
Alive == mpc /= "exit"

\* -------------------------------------------------------------------- Init
Init ==
  /\ run = TRUE
  /\ UseICMP \in BOOLEAN
  /\ stats = [h \in Hosts |-> NewHostStats]
  /\ mutex = [h \in Hosts |-> "free"]
  /\ allStats = [k \in 1..NumHosts |-> k]
  /\ wg = NumHosts
  /\ ppc = [h \in Hosts |-> IF UseICMP THEN "resolve" ELSE "check"]
  /\ sent = [h \in Hosts |-> 0]
  /\ received = [h \in Hosts |-> 0]
  /\ rtt = [h \in Hosts |-> 0]
  /\ resp = [h \in Hosts |-> "none"]
  /\ ip = [h \in Hosts |-> "none"]
  /\ dpc = "init"
  /\ di = 0
  /\ dj = 0
  /\ dtmp = 0
  /\ view = <<>>
  /\ mpc = "wait"
  /\ mi = 0
  /\ ms = 0
  /\ data = EmptyData
  /\ logFile = <<>>
  /\ stopBy = <<>>
  /\ probed = [h \in Hosts |-> <<>>]

\* ----------------------------------------------------------------- Probers
\* The goroutine main starts for a host: defer wg.Done(), then pingICMP or
\* pingTCP.  Returning from either runs the deferred wg.Done().
Return(h) ==
  /\ ppc' = [ppc EXCEPT ![h] = "done"]
  /\ wg' = wg - 1

\* pingICMP, before its loop: resolveHost.  It returns ("", err) on a lookup
\* error, and ("", nil) when the lookup gives no address and no error: then
\* pingICMP goes on with ip "".
ResolveHost(h) ==
  /\ Alive
  /\ ppc[h] = "resolve"
  /\ \E res \in {"addr", "error", "empty"} :
       IF res = "error"
       THEN /\ Return(h)
            /\ ip' = ip
       ELSE /\ ppc' = [ppc EXCEPT ![h] = "listen"]
            /\ ip' = [ip EXCEPT ![h] = res]
            /\ wg' = wg
  /\ UNCHANGED <<run, UseICMP, stats, mutex, allStats, sent, received,
                 rtt, resp, dvars, mvars, hvars>>

\* Mutant: the return on a ListenPacket error skips wg.Done().
ListenPacket_NoDone(h) ==
  /\ Alive
  /\ ppc[h] = "listen"
  /\ \E ok \in BOOLEAN :
       ppc' = [ppc EXCEPT ![h] = IF ok THEN "check" ELSE "done"]
  /\ UNCHANGED <<run, UseICMP, stats, mutex, allStats, wg, sent, received,
                 rtt, resp, ip, dvars, mvars, hvars>>

\* icmp.ListenPacket: on an error pingICMP logs and returns.
ListenPacket(h) ==
  /\ Alive
  /\ ppc[h] = "listen"
  /\ \E ok \in BOOLEAN :
       IF ok
       THEN /\ ppc' = [ppc EXCEPT ![h] = "check"]
            /\ wg' = wg
       ELSE Return(h)
  /\ UNCHANGED <<run, UseICMP, stats, mutex, allStats, sent, received,
                 rtt, resp, ip, dvars, mvars, hvars>>

\* for run { ... }: the loop test of pingTCP and of pingICMP; when run is
\* false the function returns.
ProbeLoopTest(h) ==
  /\ Alive
  /\ ppc[h] = "check"
  /\ IF run
     THEN /\ sent[h] < MaxSent
          /\ ppc' = [ppc EXCEPT ![h] = "attempt"]
          /\ wg' = wg
     ELSE Return(h)
  /\ UNCHANGED <<run, UseICMP, stats, mutex, allStats, sent, received,
                 rtt, resp, ip, dvars, mvars, hvars>>

\* What conn.ReadFrom can return without an error: raw ICMP sockets are
\* handed every ICMP packet that reaches the machine, so the packet is the
\* echo reply to this Prober's own request, or any other one (a reply to
\* another Prober's request, to another process, another ICMP type).
Packets == {"reply", "other"}

\* The packet a successful attempt has read: pingTCP reads none.
ReadPackets == IF UseICMP THEN Packets ELSE {"none"}

\* One probe attempt, from its first statement to the return of its blocking
\* call (the statements touch the goroutine's locals only).
\* TCP: start := time.Now(); sent++; net.DialTimeout returns: with err == nil,
\* received++ and rtt := time.Since(start); otherwise only the sleep is left.
\* ICMP: the echo request is built, seq++, conn.WriteTo, sent++; when WriteTo
\* fails the loop continues at its test, without sleeping (WriteTo to the
\* unparsable address "" always fails); otherwise conn.ReadFrom returns
\* whatever packet reaches the socket before the deadline (received++, rtt)
\* or the deadline's error.  resp notes which packet was read; the source
\* does not parse resp.
ProbeAttempt(h) ==
  /\ Alive
  /\ ppc[h] = "attempt"
  /\ sent' = [sent EXCEPT ![h] = @ + 1]
  /\ \/ /\ UseICMP => ip[h] = "addr"
        /\ \E d \in 1..MaxRTT, p \in ReadPackets :
             /\ received' = [received EXCEPT ![h] = @ + 1]
             /\ rtt' = [rtt EXCEPT ![h] = d]
             /\ resp' = [resp EXCEPT ![h] = p]
             /\ ppc' = [ppc EXCEPT ![h] = "lock"]
     \/ /\ UseICMP => ip[h] = "addr"
        /\ ppc' = [ppc EXCEPT ![h] = "sleep"]
        /\ UNCHANGED <<received, rtt, resp>>
     \/ /\ UseICMP
        /\ ppc' = [ppc EXCEPT ![h] = "check"]
        /\ UNCHANGED <<received, rtt, resp>>
  /\ UNCHANGED <<run, UseICMP, stats, mutex, allStats,
                 wg, ip, dvars, mvars, hvars>>

\* Mutant: every Prober appends to the record of the first host.
ProbeLock_FirstRecord(h) ==
  /\ Alive
  /\ ppc[h] = "lock"
  /\ mutex[h] = "free"
  /\ mutex' = [mutex EXCEPT ![h] = "prober"]
  /\ stats' = [stats EXCEPT ![1].RTTs = Append(@, rtt[h])]
  /\ ppc' = [ppc EXCEPT ![h] = "record"]
  /\ probed' = [probed EXCEPT ![h] = Append(@, rtt[h])]
  /\ UNCHANGED <<run, UseICMP, allStats, wg, sent, received,
                 rtt, resp, ip, dvars, mvars, stopBy>>

\* stats.mutex.Lock()
\* stats.RTTs = append(stats.RTTs, rtt)
ProbeLock(h) ==
  /\ Alive
  /\ ppc[h] = "lock"
  /\ mutex[h] = "free"
  /\ mutex' = [mutex EXCEPT ![h] = "prober"]
  /\ stats' = [stats EXCEPT ![h].RTTs = Append(@, rtt[h])]
  /\ ppc' = [ppc EXCEPT ![h] = "record"]
  /\ probed' = [probed EXCEPT ![h] = Append(@, rtt[h])]
  /\ UNCHANGED <<run, UseICMP, allStats, wg, sent, received,
                 rtt, resp, ip, dvars, mvars, stopBy>>

\* Mutant: the record step without stats.Latency = rtt.
ProbeRecord_NoLatency(h) ==
  /\ Alive
  /\ ppc[h] = "record"
  /\ stats' = [stats EXCEPT ![h].Timestamps = Append(@, Now(h)),
                            ![h].PacketLoss = PacketLossOf(sent[h], received[h])]
  /\ mutex' = [mutex EXCEPT ![h] = "free"]
  /\ rtt' = [rtt EXCEPT ![h] = 0]
  /\ resp' = [resp EXCEPT ![h] = "none"]
  /\ ppc' = [ppc EXCEPT ![h] = "sleep"]
  /\ UNCHANGED <<run, UseICMP, allStats, wg, sent, received,
                 ip, dvars, mvars, hvars>>

\* stats.Latency = rtt
\* stats.Timestamps = append(stats.Timestamps, time.Now())
\* stats.PacketLoss = float64(sent-received) / float64(sent) * 100
\* stats.mutex.Unlock()
ProbeRecord(h) ==
  /\ Alive
  /\ ppc[h] = "record"
  /\ stats' = [stats EXCEPT ![h].Latency = rtt[h],
                            ![h].Timestamps = Append(@, Now(h)),
                            ![h].PacketLoss = PacketLossOf(sent[h], received[h])]
  /\ mutex' = [mutex EXCEPT ![h] = "free"]
  /\ rtt' = [rtt EXCEPT ![h] = 0]
  /\ resp' = [resp EXCEPT ![h] = "none"]
  /\ ppc' = [ppc EXCEPT ![h] = "sleep"]
  /\ UNCHANGED <<run, UseICMP, allStats, wg, sent, received,
                 ip, dvars, mvars, hvars>>

\* Mutant: the loop tests run before the sleep, not after it: when the sleep
\* returns the next attempt starts.
ProbeSleep_ThenAttempt(h) ==
  /\ Alive
  /\ ppc[h] = "sleep"
  /\ ppc' = [ppc EXCEPT ![h] = IF sent[h] < MaxSent THEN "attempt" ELSE "check"]
  /\ UNCHANGED <<run, UseICMP, stats, mutex, allStats, wg, sent, received,
                 rtt, resp, ip, dvars, mvars, hvars>>

\* time.Sleep(cfg.Interval) returns.
ProbeSleep(h) ==
  /\ Alive
  /\ ppc[h] = "sleep"
  /\ ppc' = [ppc EXCEPT ![h] = "check"]
  /\ UNCHANGED <<run, UseICMP, stats, mutex, allStats, wg, sent, received,
                 rtt, resp, ip, dvars, mvars, hvars>>

Prober(h) ==
  \/ ResolveHost(h)
  \/ ListenPacket(h)
  \/ ProbeLoopTest(h)
  \/ ProbeAttempt(h)
  \/ ProbeLock(h)
  \/ ProbeRecord(h)
  \/ ProbeSleep(h)

\* ----------------------------------------------------------- displayGraph
\* termui.Init(): on success the graph loop runs; on failure displayLoop is
\* the fallback, which returns at once when tcell.NewScreen() fails too.
DisplayInit ==
  /\ Alive
  /\ dpc = "init"
  /\ \E ui \in {"graph", "loop", "none"} :
       dpc' = CASE ui = "graph" -> "gtest"
                [] ui = "loop" -> "ltest"
                [] OTHER -> "done"
  /\ UNCHANGED <<run, UseICMP, stats, mutex, allStats, pvars,
                 di, dj, dtmp, view, mvars, hvars>>

\* for run { select { ... } }: the loop test of displayGraph.
GraphLoopTest ==
  /\ Alive
  /\ dpc = "gtest"
  /\ dpc' = IF run THEN "select" ELSE "done"
  /\ UNCHANGED <<run, UseICMP, stats, mutex, allStats, pvars,
                 di, dj, dtmp, view, mvars, hvars>>

\* case <-ticker.C: the range over stats begins.
GraphTick ==
  /\ Alive
  /\ dpc = "select"
  /\ di' = 1
  /\ dpc' = "glock"
  /\ UNCHANGED <<run, UseICMP, stats, mutex, allStats, pvars,
                 dj, dtmp, view, mvars, hvars>>

\* Mutant: 'q' toggles run.
GraphQuit_Toggle ==
  /\ Alive
  /\ dpc = "select"
  /\ run' = ~run
  /\ NoteStop("quit")
  /\ dpc' = "gtest"
  /\ UNCHANGED <<UseICMP, stats, mutex, allStats, pvars,
                 di, dj, dtmp, view, mvars>>

\* case e := <-uiEvents with e.ID == "q": run = false.
GraphQuit ==
  /\ Alive
  /\ dpc = "select"
  /\ run' = FALSE
  /\ NoteStop("quit")
  /\ dpc' = "gtest"
  /\ UNCHANGED <<UseICMP, stats, mutex, allStats, pvars,
                 di, dj, dtmp, view, mvars>>

\* case e := <-uiEvents with any other event: back to the loop test.
GraphOtherEvent ==
  /\ Alive
  /\ dpc = "select"
  /\ dpc' = "gtest"
  /\ UNCHANGED <<run, UseICMP, stats, mutex, allStats, pvars,
                 di, dj, dtmp, view, mvars, hvars>>

\* Mutant: the trim keeps the oldest entries.
TrimRTTs_KeepOldest(rtts) ==
  IF Len(rtts) > HistoryCap THEN SubSeq(rtts, 1, HistoryCap) ELSE rtts

\* if len(s.RTTs) > 50 { s.RTTs = s.RTTs[len(s.RTTs)-50:] }
TrimRTTs(rtts) ==
  IF Len(rtts) > HistoryCap THEN LastN(rtts, HistoryCap) ELSE rtts

\* One element of the range, which runs from s.mutex.Lock() to
\* s.mutex.Unlock(): the trim (plot.Data[i] and the legend are the renderer's
\* own).  After the last element termui.Render and the loop test.
GraphTrim ==
  /\ Alive
  /\ dpc = "glock"
  /\ mutex[allStats[di]] = "free"
  /\ stats' = [stats EXCEPT ![allStats[di]].RTTs = TrimRTTs(@)]
  /\ IF di < Len(allStats)
     THEN /\ di' = di + 1
          /\ dpc' = "glock"
     ELSE /\ di' = 0
          /\ dpc' = "gtest"
  /\ UNCHANGED <<run, UseICMP, mutex, allStats, pvars,
                 dj, dtmp, view, mvars, hvars>>

\* ------------------------------------------------------------ displayLoop
\* return stats[i].Latency < stats[j].Latency
Less(x, y) == stats[x].Latency < stats[y].Latency

\* Where sort.Slice goes after the inner loop of its insertion sort ended at
\* outer index i (slices of at most 12 elements are insertion-sorted):
\*   for i := 1; i < n; i++ { for j := i; j > 0 && less(j, j-1); j-- { swap } }
\* (indices here are 1-based).  After the last i the range that draws begins.
SortNext(i) ==
  IF i < Len(allStats)
  THEN /\ di' = i + 1
       /\ dj' = i + 1
       /\ dpc' = "less1"
  ELSE /\ di' = 1
       /\ dj' = 0
       /\ dpc' = "draw"

\* for run { screen.Clear(); header; sort.Slice(stats, ...) begins.
LoopTest ==
  /\ Alive
  /\ dpc = "ltest"
  /\ IF run
     THEN /\ view' = <<>>
          /\ SortNext(1)
     ELSE /\ dpc' = "done"
          /\ UNCHANGED <<di, dj, view>>
  /\ UNCHANGED <<run, UseICMP, stats, mutex, allStats, pvars,
                 dtmp, mvars, hvars>>

\* less(j, j-1): stats[i].mutex.Lock()
LessLockFirst ==
  /\ Alive
  /\ dpc = "less1"
  /\ mutex[allStats[dj]] = "free"
  /\ mutex' = [mutex EXCEPT ![allStats[dj]] = "display"]
  /\ dpc' = "less2"
  /\ UNCHANGED <<run, UseICMP, stats, allStats, pvars,
                 di, dj, dtmp, view, mvars, hvars>>

\* less(j, j-1): stats[j].mutex.Lock(), the comparison, and the deferred
\* Unlocks of both records.
LessCompare ==
  /\ Alive
  /\ dpc = "less2"
  /\ mutex[allStats[dj - 1]] = "free"
  /\ mutex' = [mutex EXCEPT ![allStats[dj]] = "free"]
  /\ IF Less(allStats[dj], allStats[dj - 1])
     THEN /\ dpc' = "swap1"
          /\ UNCHANGED <<di, dj>>
     ELSE SortNext(di)
  /\ UNCHANGED <<run, UseICMP, stats, allStats, pvars,
                 dtmp, view, mvars, hvars>>

\* swap(j, j-1) is ps[j], ps[j-1] = ps[j-1], ps[j] on the slice's pointers:
\* both are loaded, then ps[j] is stored ...
SwapFirst ==
  /\ Alive
  /\ dpc = "swap1"
  /\ dtmp' = allStats[dj]
  /\ allStats' = [allStats EXCEPT ![dj] = allStats[dj - 1]]
  /\ dpc' = "swap2"
  /\ UNCHANGED <<run, UseICMP, stats, mutex, pvars,
                 di, dj, view, mvars, hvars>>

\* Mutant: the swap's second store is left out, so the slice keeps the same
\* record at both positions.
SwapSecond_NoStore ==
  /\ Alive
  /\ dpc = "swap2"
  /\ dtmp' = 0
  /\ IF dj - 1 > 1
     THEN /\ dj' = dj - 1
          /\ dpc' = "less1"
          /\ di' = di
     ELSE SortNext(di)
  /\ UNCHANGED <<run, UseICMP, stats, mutex, allStats, pvars,
                 view, mvars, hvars>>

\* ... then ps[j-1]; j--, and the inner loop's test j > 0.
SwapSecond ==
  /\ Alive
  /\ dpc = "swap2"
  /\ allStats' = [allStats EXCEPT ![dj - 1] = dtmp]
  /\ dtmp' = 0
  /\ IF dj - 1 > 1
     THEN /\ dj' = dj - 1
          /\ dpc' = "less1"
          /\ di' = di
     ELSE SortNext(di)
  /\ UNCHANGED <<run, UseICMP, stats, mutex, pvars,
                 view, mvars, hvars>>

\* One element of for i, s := range stats: from s.mutex.Lock() to
\* s.mutex.Unlock() the line of s is drawn from s.Host and s.Latency (and
\* s.PacketLoss, which the view leaves out); after the last element
\* screen.Show().
DrawLine ==
  /\ Alive
  /\ dpc = "draw"
  /\ mutex[allStats[di]] = "free"
  /\ view' = Append(view, [Host |-> allStats[di],
                           Latency |-> stats[allStats[di]].Latency])
  /\ IF di < Len(allStats)
     THEN /\ di' = di + 1
          /\ dpc' = "draw"
     ELSE /\ di' = 0
          /\ dpc' = "lsleep"
  /\ UNCHANGED <<run, UseICMP, stats, mutex, allStats, pvars,
                 dj, dtmp, mvars, hvars>>

\* time.Sleep(1 * time.Second) returns.
LoopSleep ==
  /\ Alive
  /\ dpc = "lsleep"
  /\ dpc' = "ltest"
  /\ UNCHANGED <<run, UseICMP, stats, mutex, allStats, pvars,
                 di, dj, dtmp, view, mvars, hvars>>

Display ==
  \/ DisplayInit
  \/ GraphLoopTest
  \/ GraphTick
  \/ GraphQuit
  \/ GraphOtherEvent
  \/ GraphTrim
  \/ LoopTest
  \/ LessLockFirst
  \/ LessCompare
  \/ SwapFirst
  \/ SwapSecond
  \/ DrawLine
  \/ LoopSleep

\* -------------------------------------------------------------------- main
\* A SIGINT or SIGTERM reaches the process and main receives it from ch
\* (signal.Notify; a later signal stays in the channel's buffer or is
\* dropped, and nothing reads it): <-ch; run = false
MainStop ==
  /\ Alive
  /\ mpc = "wait"
  /\ run' = FALSE
  /\ NoteStop("signal")
  /\ mpc' = "join"
  /\ UNCHANGED <<UseICMP, stats, mutex, allStats, pvars, dvars,
                 mi, ms, data, logFile>>

\* Mutant: main does not wait for the Probers before saveLog.
WaitGroupZero_NoWait == TRUE

\* wg.Wait() blocks until the counter (wg.Add(1) for every host) is zero.
WaitGroupZero == wg = 0

\* wg.Wait() returns; saveLog: os.Create("latency_log.json").  When it fails
\* saveLog logs and returns, and main returns.
MainJoin ==
  /\ Alive
  /\ mpc = "join"
  /\ WaitGroupZero
  /\ \E created \in BOOLEAN :
       IF created
       THEN /\ mpc' = "range"
            /\ mi' = 1
       ELSE /\ mpc' = "exit"
            /\ mi' = mi
  /\ UNCHANGED <<run, UseICMP, stats, mutex, allStats, pvars, dvars,
                 ms, data, logFile, hvars>>

\* for _, s := range stats: the next element is read from the slice; after
\* the last one the map is encoded into the file, and main returns.
SaveLogRange ==
  /\ Alive
  /\ mpc = "range"
  /\ IF mi <= Len(allStats)
     THEN /\ ms' = allStats[mi]
          /\ mpc' = "slock"
          /\ UNCHANGED logFile
     ELSE /\ logFile' = Append(logFile, data)
          /\ mpc' = "exit"
          /\ UNCHANGED ms
  /\ UNCHANGED <<run, UseICMP, stats, mutex, allStats, pvars, dvars,
                 mi, data, hvars>>

\* s.mutex.Lock(); data[s.Host] = s.RTTs; s.mutex.Unlock()
SaveLogCopy ==
  /\ Alive
  /\ mpc = "slock"
  /\ mutex[ms] = "free"
  /\ data' = [data EXCEPT ![ms] = [present |-> TRUE, RTTs |-> stats[ms].RTTs]]
  /\ mi' = mi + 1
  /\ mpc' = "range"
  /\ UNCHANGED <<run, UseICMP, stats, mutex, allStats, pvars, dvars,
                 ms, logFile, hvars>>

Main ==
  \/ MainStop
  \/ MainJoin
  \/ SaveLogRange
  \/ SaveLogCopy

Next ==
  \/ \E h \in Hosts : Prober(h)
  \/ Display
  \/ Main

Spec == Init /\ [][Next]_vars

\* The steps the process takes by itself: every step but the arrival of a
\* signal (MainStop) and the user's key presses (GraphQuit, GraphOtherEvent).
Internal ==
  \/ \E h \in Hosts : Prober(h)
  \/ DisplayInit
  \/ GraphLoopTest
  \/ GraphTick
  \/ GraphTrim
  \/ LoopTest
  \/ LessLockFirst
  \/ LessCompare
  \/ SwapFirst
  \/ SwapSecond
  \/ DrawLine
  \/ LoopSleep
  \/ MainJoin
  \/ SaveLogRange
  \/ SaveLogCopy

\* The Go scheduler runs every runnable goroutine, timers fire, and blocking
\* network calls return by their deadline; signals and key presses are the
\* environment's and need not come.
FairSpec ==
  /\ Spec
  /\ \A h \in Hosts : WF_vars(Prober(h))
  /\ WF_vars(DisplayInit \/ GraphLoopTest \/ GraphTick \/ GraphTrim
               \/ LoopTest \/ LessLockFirst \/ LessCompare \/ SwapFirst
               \/ SwapSecond \/ DrawLine \/ LoopSleep)
  /\ WF_vars(MainJoin \/ SaveLogRange \/ SaveLogCopy)

\* ------------------------------------------------------------------ claims
\* saveLog has been called (main is past wg.Wait()).
SaveLogBegun == mpc \in {"range", "slock", "exit"}

AllExited == \A h \in Hosts : ppc[h] = "done"

\* A step in which the Prober of h writes its record.
ProberUpdates(h) == ProbeLock(h) \/ ProbeRecord(h)

\* C1: shutdown ordering.  In every state in which saveLog has begun, run
\* has been cleared and every Prober goroutine has left its probe loop, and
\* no step taken after saveLog has begun is a Prober's record update.
C1_ShutdownOrdering ==
  /\ [](SaveLogBegun => (~run /\ AllExited))
  /\ [][SaveLogBegun => ~(\E h \in Hosts : ProberUpdates(h))]_vars

\* saveLog has copied the history of a host whose Prober recorded samples.
C1_Witness ==
  \E h \in Hosts : data[h].present /\ data[h].RTTs /= <<>>

Stops == {stopBy[k] : k \in 1..Len(stopBy)}

\* C2: a quit from the renderer has the effect of a signal: after 'q', with
\* no signal arriving, the shutdown runs to its end (Probers stop, the join
\* completes, saveLog is called, main returns).  As a statement about the
\* states in which the process can take no further step by itself: if 'q' was
\* pressed, main has returned there.
C2_QuitCompletesShutdown ==
  ("quit" \in Stops /\ ~ENABLED Internal) => mpc = "exit"

\* C3: the sample history of every host holds at most the cap (50 in the
\* source) entries in every reachable state.
C3_HistoryBounded ==
  \A h \in Hosts : Len(stats[h].RTTs) <= HistoryCap

\* A probe attempt of h is over: its Prober is asleep, at the loop test, or
\* has returned.
AttemptOver(h) == ppc[h] \in {"sleep", "check", "done"}

\* C4: after every probe attempt, successful or failed, PacketLoss is
\* (sent - received) / sent * 100 of the Prober's counters, and 0 while
\* sent = 0.
C4_LossAfterEveryAttempt ==
  \A h \in Hosts :
    AttemptOver(h) =>
      stats[h].PacketLoss =
        (IF sent[h] = 0 THEN ZeroLoss ELSE PacketLossOf(sent[h], received[h]))
\* The loss percentage 100 * num / den lies in [0, 100].
LossInRange(p) == p.den > 0 /\ 0 <= p.num /\ p.num <= p.den

\* C5: for every host, in every reachable state, received <= sent and
\* PacketLoss is within [0, 100]; and no step decreases sent or received.
C5_CountersAndLossInRange ==
  /\ [](\A h \in Hosts :
          received[h] <= sent[h] /\ LossInRange(stats[h].PacketLoss))
  /\ [][\A h \in Hosts :
          sent'[h] >= sent[h] /\ received'[h] >= received[h]]_vars

\* A host with a lost and a received probe, whose PacketLoss is 50.
C5_Witness ==
  \E h \in Hosts :
    /\ sent[h] = 2
    /\ received[h] = 1
    /\ stats[h].PacketLoss = [num |-> 1, den |-> 2]

\* The step is an attempt of h that failed: sent grew, received did not.
FailedAttempt(h) == sent'[h] = sent[h] + 1 /\ received'[h] = received[h]

\* C6: whenever a record's lock is free, Latency is the rtt of the last entry
\* of RTTs, or the zero value when RTTs is empty; while no probe of the host
\* has succeeded Latency is the zero value; and a failed attempt leaves
\* Latency and the history unchanged.
C6_LatencyIsLastSample ==
  /\ [](\A h \in Hosts :
          /\ mutex[h] = "free" =>
               stats[h].Latency = (IF stats[h].RTTs = <<>> THEN 0
                                   ELSE stats[h].RTTs[Len(stats[h].RTTs)])
          /\ received[h] = 0 => stats[h].Latency = 0)
  /\ [][\A h \in Hosts :
          FailedAttempt(h) =>
            /\ stats'[h].Latency = stats[h].Latency
            /\ stats'[h].RTTs = stats[h].RTTs
            /\ stats'[h].Timestamps = stats[h].Timestamps]_vars

\* A record with its lock free after two samples of different rtt, and one
\* whose last attempt failed after a success.
C6_Witness ==
  /\ \E h \in Hosts :
       /\ mutex[h] = "free"
       /\ Len(stats[h].RTTs) = 2
       /\ stats[h].RTTs[1] /= stats[h].RTTs[2]
  /\ \E h \in Hosts :
       /\ AttemptOver(h)
       /\ stats[h].RTTs /= <<>>
       /\ sent[h] > received[h]

\* The lines of a view are in ascending order of the latencies they show,
\* lines of equal latency in the order the hosts were configured.
Ranked(v) ==
  \A a, b \in 1..Len(v) :
    a < b => \/ v[a].Latency < v[b].Latency
             \/ v[a].Latency = v[b].Latency /\ v[a].Host < v[b].Host

\* C7: every view displayLoop shows is ordered ascending by the latencies it
\* presents, hosts of equal latency in configuration order.
C7_ViewRanked == dpc = "lsleep" => Ranked(view)

\* C8: the stop signal is set once and setting it again changes nothing: no
\* step sets run back to TRUE; a step that assigns run = false when it is
\* false already changes neither run nor any record, the slice, a Prober's
\* state, the WaitGroup or the log; the log is written at most once; and
\* whatever the number of stop requests, main returns in the same final
\* state: run cleared, every Prober returned, the WaitGroup at zero.
C8_StopSetOnceIdempotent ==
  /\ [][~run => ~run']_vars
  /\ [][(~run /\ stopBy' /= stopBy) =>
          UNCHANGED <<run, stats, mutex, allStats, pvars, data, logFile>>]_vars
  /\ [](Len(logFile) <= 1)
  /\ [](mpc = "exit" => (~run /\ AllExited /\ wg = 0))

\* Both a quit and a signal have set stop, and the log has been written.
C8_Witness ==
  /\ Stops = {"quit", "signal"}
  /\ mpc = "exit"
  /\ Len(logFile) = 1

\* Stop is set and the Prober of h is in its sleep or past it.
WindingDown(h) == ~run /\ ppc[h] \in {"sleep", "check", "done"}

\* C9: a Prober that is in its sleep when stop is set finishes the sleep,
\* starts no further attempt and returns: from a state with stop set and the
\* Prober asleep, every step leaves its sent count as it is and keeps it
\* asleep, at the loop test or returned, never back from returned; and
\* wg.Wait() has returned only in states where every Prober has returned.
C9_NoProbeAfterSleep ==
  /\ [][\A h \in Hosts :
          WindingDown(h) =>
            /\ WindingDown(h)'
            /\ sent'[h] = sent[h]
            /\ ppc[h] = "check" => ppc'[h] /= "sleep"
            /\ ppc[h] = "done" => ppc'[h] = "done"]_vars
  /\ [](mpc \notin {"wait", "join"} => AllExited)

\* Stop was set by the signal, main waits in wg.Wait(), and a Prober that
\* has probed is in its sleep.
C9_Witness ==
  /\ stopBy = <<"signal">>
  /\ mpc = "join"
  /\ \E h \in Hosts : ppc[h] = "sleep" /\ sent[h] = 1

\* main has received the signal and cleared run.
Signalled == mpc /= "wait"

\* C10: after the signal has set stop, every Prober returns, wg.Wait()
\* returns, saveLog is called and main returns, under fair scheduling; and a
\* Prober starts at most one attempt after stop: only the attempt whose loop
\* test it had passed, for once stop is set and a Prober is anywhere else, it
\* neither changes sent nor comes to the start of an attempt.
C10_StopTerminates ==
  /\ Signalled ~> (mpc = "exit" /\ AllExited)
  /\ [][\A h \in Hosts :
          (~run /\ ppc[h] /= "attempt") =>
            (sent'[h] = sent[h] /\ ppc'[h] /= "attempt")]_vars

\* main has returned after a signal alone set stop: the Probers had probed
\* and recorded, and the log has been written.
C10_Witness ==
  /\ stopBy = <<"signal">>
  /\ mpc = "exit"
  /\ AllExited
  /\ Len(logFile) = 1
  /\ \E h \in Hosts : logFile[1][h].RTTs /= <<>>

\* The lookup of h's name gave no address: resolveHost has returned with an
\* error, or with the empty address and no error.
Unresolved(h) == UseICMP /\ ppc[h] /= "resolve" /\ ip[h] /= "addr"

\* C11: in ICMP mode a host that cannot be resolved (lookup error, or a
\* lookup that returns no address) has a Prober that has exited without a
\* probe attempt: it has returned (and so counts as joined), its sent count
\* is zero and its record is the zero record.
C11_UnresolvedExitsUnprobed ==
  \A h \in Hosts :
    Unresolved(h) =>
      /\ ppc[h] = "done"
      /\ sent[h] = 0
      /\ stats[h] = NewHostStats

\* s is a contiguous suffix of t.
IsSuffix(s, t) == Len(s) <= Len(t) /\ s = LastN(t, Len(s))

C13_OneSleepBetweenAttempts ==
  [][\A h \in Hosts :
       /\ (ppc'[h] = "check" /\ ppc[h] /= "check") =>
            ppc[h] \in {"sleep", "listen"}
       /\ (ppc[h] = "attempt" /\ ppc'[h] /= "attempt") =>
            ppc'[h] \in {"lock", "sleep"}]_vars

\* C14: in ICMP mode an attempt is counted as received, and appends a sample
\* and sets Latency, only if the packet read is the echo reply to the
\* Prober's own request; any other packet counts as loss (received and the
\* record stay as they are).
C14_OnlyMatchingReplyCounts ==
  [][\A h \in Hosts :
       UseICMP =>
         /\ received'[h] > received[h] => resp'[h] = "reply"
         /\ Len(stats'[h].RTTs) > Len(stats[h].RTTs) => resp[h] = "reply"
         /\ stats'[h].Latency /= stats[h].Latency => resp[h] = "reply"]_vars

\* C15: the display and logging paths are read-only: no step of displayGraph,
\* displayLoop or saveLog changes a field of a record or the order of the
\* shared slice, and a record changes only in a step of its own Prober.
C15_DisplayAndLogReadOnly ==
  /\ [][(Display \/ Main) => UNCHANGED <<stats, allStats>>]_vars
  /\ [][\A h \in Hosts : stats'[h] /= stats[h] => Prober(h)]_vars

\* C16: a Prober's step changes only its own host's state.  For two distinct
\* hosts a and b, a step of a's Prober leaves b's record, b's lock, and b's
\* Prober (its counters and its position) unchanged; no Prober step changes
\* run or the shared slice; and while the process runs and stop is not set, a
\* Prober that has returned does not keep another one from its next step.
C16_ProberConfinedToOwnRecord ==
  /\ [][\A a, b \in Hosts :
          (a /= b /\ Prober(a)) =>
            /\ stats'[b] = stats[b]
            /\ mutex'[b] = mutex[b]
            /\ sent'[b] = sent[b]
            /\ received'[b] = received[b]
            /\ ppc'[b] = ppc[b]
            /\ probed'[b] = probed[b]]_vars
  /\ [][(\E h \in Hosts : Prober(h)) => UNCHANGED <<run, allStats>>]_vars
  /\ [](\A a, b \in Hosts :
          (/\ a /= b
           /\ Alive
           /\ run
           /\ ppc[a] = "done"
           /\ ppc[b] \in {"attempt", "record", "sleep"}) => ENABLED Prober(b))

\* The Prober of one host has returned without a sample (its setup failed)
\* while stop is not set, and the other host has two recorded samples.
C16_Witness ==
  \E a, b \in Hosts :
    /\ a /= b
    /\ run
    /\ ppc[a] = "done"
    /\ stats[a] = NewHostStats
    /\ Len(probed[b]) = 2
    /\ mutex[b] = "free"

\* C17: in every reachable state where a record's lock is free, RTTs and
\* Timestamps have the same length (entry k of one belongs to entry k of the
\* other), also after the display has trimmed the history.
C17_HistoryIsPairs ==
  \A h \in Hosts :
    mutex[h] = "free" => Len(stats[h].RTTs) = Len(stats[h].Timestamps)

\* C18: the log written at shutdown has an entry for every configured host,
\* holding samples of that host's own history, also when the display
\* goroutine, which main does not join, is sorting the shared slice while
\* saveLog ranges over it.
C18_LogHasEveryHost ==
  logFile /= <<>> =>
    \A h \in Hosts :
      /\ logFile[1][h].present
      /\ IsSuffix(logFile[1][h].RTTs, probed[h])

\* The lock of record h, when held, is held by a goroutine that can go on to
\* unlock it: the Prober of h inside its critical section, whose next step
\* needs nothing; or the sort's comparator, which holds the record at
\* position j and locks the one at position j-1 next: a different record,
\* which is free (the comparator can go on) or held by its Prober (whose
\* next step unlocks it).
WillUnlock(h) ==
  CASE mutex[h] = "free" -> TRUE
    [] mutex[h] = "prober" -> ENABLED ProbeRecord(h)
    [] mutex[h] = "display" ->
         /\ dpc = "less2"
         /\ allStats[dj] = h
         /\ allStats[dj - 1] /= h
         /\ \/ ENABLED LessCompare
            \/ /\ mutex[allStats[dj - 1]] = "prober"
               /\ ENABLED ProbeRecord(allStats[dj - 1])

\* The record whose lock a goroutine is waiting for in mutex.Lock(), as a
\* set: empty when it is not at a Lock call.
ProberWaitsFor(h) == IF ppc[h] = "lock" THEN {h} ELSE {}
DisplayWaitsFor ==
  CASE dpc \in {"glock", "draw"} -> {allStats[di]}
    [] dpc = "less1" -> {allStats[dj]}
    [] dpc = "less2" -> {allStats[dj - 1]}
    [] OTHER -> {}
SaveLogWaitsFor == IF mpc = "slock" THEN {ms} ELSE {}

\* C19: lock acquisition never deadlocks.  While the process runs, every
\* record lock that a Prober, the display goroutine (its two-lock comparator
\* included) or saveLog waits for is free or held by a goroutine that can go
\* on to release it; no goroutine holds a lock while it waits in a cycle, the
\* comparator never locks one record twice, and a Prober only ever waits for
\* its own record.
C19_NoLockDeadlock ==
  Alive =>
    /\ \A h \in Hosts : WillUnlock(h)
    /\ \A h \in (UNION {ProberWaitsFor(g) : g \in Hosts})
                 \cup DisplayWaitsFor \cup SaveLogWaitsFor :
         mutex[h] = "free" \/ WillUnlock(h)
    /\ \A h \in Hosts : mutex[h] = "prober" => ppc[h] = "record"

\* The comparator holds the lock of one record and waits for the other,
\* which is held by its Prober; the first record's Prober waits for the lock
\* the comparator holds.
C19_Witness ==
  /\ dpc = "less2"
  /\ mutex[allStats[dj]] = "display"
  /\ ppc[allStats[dj]] = "lock"
  /\ mutex[allStats[dj - 1]] = "prober"
=============================================================================
